---- MODULE Spec2Model ----
(***************************************************************************)
(* Model of the ESLint rule clean-sort-imports (src/index.js).             *)
(*                                                                         *)
(* Strings are sequences of UTF-16 code units, so that toLowerCase and the *)
(* JavaScript relational operators on strings are computed, not assumed.   *)
(* An optional value (null / undefined) is the empty tuple, a present one  *)
(* is a one-element tuple.                                                 *)
(***************************************************************************)
EXTENDS Integers, Sequences, FiniteSets

VARIABLES
    configuration,        \* context.options[0], every option optional
    previousDeclaration,  \* the closure variable of create()
    sourceText,           \* sourceCode.getText() as read by the last callback
    cur,                  \* history: the node of the last callback
    prev,                 \* history: the node of the callback before it
    comparedWith,         \* history: the cursor the last callback compared against
    prevFlagged,          \* history: the callback before the last one reported on its declaration
    reports,              \* the context.report() calls of the last callback
    declCount             \* number of callbacks so far

vars == <<configuration, previousDeclaration, sourceText, cur, prev,
          comparedWith, prevFlagged, reports, declCount>>

\* ---------------------------------------------------------------- bounds
MaxDecls == 3    \* import declarations per file
MaxGap == 2      \* start line of a declaration minus end line of the one before
MaxSpecs == 3    \* named specifiers of a declaration in the member specification

\* ------------------------------------------------------- optional values
Null == <<>>
Some(x) == <<x>>

\* ---------------------------------------------------------------- strings
toLowerCase(s) == [i \in 1..Len(s) |-> IF s[i] \in 65..90 THEN s[i] + 32 ELSE s[i]]

Min(a, b) == IF a < b THEN a ELSE b

\* a < b on JavaScript strings: code unit by code unit, a proper prefix is less
StrLess(a, b) ==
    \E k \in 1..(Min(Len(a), Len(b)) + 1) :
        /\ \A j \in 1..(k - 1) : a[j] = b[j]
        /\ \/ k > Len(a) /\ k <= Len(b)
           \/ k <= Len(a) /\ k <= Len(b) /\ a[k] < b[k]

StrGreater(a, b) == StrLess(b, a)

\* String.prototype.slice / sourceCode text slicing with 0-based offsets
Slice(text, from, to) == SubSeq(text, from + 1, to)

RECURSIVE Concat(_)
Concat(ss) == IF ss = <<>> THEN <<>> ELSE Head(ss) \o Concat(Tail(ss))

RECURSIVE CountOf(_, _)
CountOf(c, s) ==
    IF s = <<>> THEN 0
    ELSE (IF Head(s) = c THEN 1 ELSE 0) + CountOf(c, Tail(s))

\* ------------------------------------------------------------ source text
kwImport == <<105, 109, 112, 111, 114, 116, 32>>   \* "import "
kwFrom == <<32, 102, 114, 111, 109, 32>>           \* " from "
kwStarAs == <<42, 32, 97, 115, 32>>                \* "* as "
kwAs == <<32, 97, 115, 32>>                        \* " as "
Quote == <<39>>                                    \* "'"
OpenBrace == <<123>>                               \* "{"
CommaOpenBrace == <<44, 32, 123>>                  \* ", {"
CloseBrace == <<125>>                              \* "}"
CommaSpace == <<44, 32>>                           \* ", "
CommaNewline == <<44, 10>>                         \* ",\n"
Comment == <<47, 42, 42, 47>>                      \* "/**/"
LF == <<10>>                                       \* "\n"

RECURSIVE Newlines(_)
Newlines(n) == IF n <= 0 THEN <<>> ELSE LF \o Newlines(n - 1)

(***************************************************************************)
(* A declaration is described by its head specifier (none, a namespace or  *)
(* a default binding named d.name), its named specifiers d.named and its   *)
(* module d.from.  A named specifier is [local, renamed, before, after,    *)
(* nl]: "z as local" when renamed, a comment before / after it, and ",\n"  *)
(* instead of ", " after it when nl.                                       *)
(***************************************************************************)
SpecifierText(m) == IF m.renamed THEN <<122>> \o kwAs \o m.local ELSE m.local

ItemText(m, last) ==
    (IF m.before THEN Comment ELSE <<>>) \o SpecifierText(m)
        \o (IF m.after THEN Comment ELSE <<>>)
        \o (IF last THEN <<>> ELSE IF m.nl THEN CommaNewline ELSE CommaSpace)

NamedText(ms) == Concat([i \in 1..Len(ms) |-> ItemText(ms[i], i = Len(ms))])

HeadText(d) ==
    IF d.head = "namespace" THEN kwStarAs \o d.name
    ELSE IF d.head = "default" THEN d.name
    ELSE <<>>

BeforeNamed(d) ==
    kwImport \o HeadText(d)
        \o (IF d.named = <<>> THEN <<>>
            ELSE IF d.head = "default" THEN CommaOpenBrace ELSE OpenBrace)

DeclText(d) ==
    BeforeNamed(d) \o NamedText(d.named)
        \o (IF d.named = <<>> THEN <<>> ELSE CloseBrace)
        \o (IF d.head = "none" /\ d.named = <<>> THEN <<>> ELSE kwFrom)
        \o Quote \o d.from \o Quote

RECURSIVE Spaces(_)
Spaces(n) == IF n <= 0 THEN <<>> ELSE <<32>> \o Spaces(n - 1)

(***************************************************************************)
(* The text of the file as the callback of the declaration starting on     *)
(* startLine at column reads it, up to the end of the declaration.  The    *)
(* handler reads the text only inside the declaration: the lines before it *)
(* are left empty and what precedes it on its own line is blanked.         *)
(***************************************************************************)
FileText(d, startLine, column) ==
    Newlines(startLine - 1) \o Spaces(column) \o DeclText(d)

HeadSpecifiers(d, offset) ==
    IF d.head = "namespace"
    THEN <<[type |-> "ImportNamespaceSpecifier", local |-> [name |-> d.name],
            range |-> <<offset + Len(kwImport),
                        offset + Len(kwImport) + Len(HeadText(d))>>]>>
    ELSE IF d.head = "default"
    THEN <<[type |-> "ImportDefaultSpecifier", local |-> [name |-> d.name],
            range |-> <<offset + Len(kwImport),
                        offset + Len(kwImport) + Len(HeadText(d))>>]>>
    ELSE <<>>

NamedStart(d, offset, i) ==
    offset + Len(BeforeNamed(d))
        + Len(Concat([j \in 1..(i - 1) |-> ItemText(d.named[j], FALSE)]))
        + (IF d.named[i].before THEN Len(Comment) ELSE 0)

NamedSpecifiers(d, offset) ==
    [i \in 1..Len(d.named) |->
        [type |-> "ImportSpecifier", local |-> [name |-> d.named[i].local],
         range |-> <<NamedStart(d, offset, i),
                     NamedStart(d, offset, i) + Len(SpecifierText(d.named[i]))>>]]

\* The ImportDeclaration node the parser produces for d starting on startLine
\* at column
MkNode(d, startLine, column) ==
    [type |-> "ImportDeclaration",
     specifiers |-> HeadSpecifiers(d, startLine - 1 + column)
                        \o NamedSpecifiers(d, startLine - 1 + column),
     range |-> <<startLine - 1 + column, startLine - 1 + column + Len(DeclText(d))>>,
     loc |-> [start |-> [line |-> startLine],
              end |-> [line |-> startLine + CountOf(10, DeclText(d))]]]

\* ----------------------------------------------------- create(): options
\* JavaScript's  option || dflt  on an optional boolean
BoolOr(option, dflt) == IF option # Null /\ option[1] THEN option[1] ELSE dflt

DefaultOrder == <<"none", "all", "default", "named">>

ignoreCase == BoolOr(configuration.ignoreCase, FALSE)

ignoreDeclarationSort == BoolOr(configuration.ignoreDeclarationSort, FALSE)

ignoreMemberSort == BoolOr(configuration.ignoreMemberSort, FALSE)

memberSyntaxSortOrder ==
    IF configuration.memberSyntaxSortOrder # Null
    THEN configuration.memberSyntaxSortOrder[1]
    ELSE DefaultOrder

allowSeparatedGroups == BoolOr(configuration.allowSeparatedGroups, TRUE)

\* ------------------------------------------------------ create(): helpers
\* variant: the declaration classified by its last specifier
usedMemberSyntaxOfLast(node) ==
    IF Len(node.specifiers) = 0 THEN "none"
    ELSE IF node.specifiers[Len(node.specifiers)].type = "ImportNamespaceSpecifier"
    THEN "all"
    ELSE IF node.specifiers[Len(node.specifiers)].type = "ImportDefaultSpecifier"
    THEN "default"
    ELSE "named"

usedMemberSyntax(node) ==
    IF Len(node.specifiers) = 0 THEN "none"
    ELSE IF node.specifiers[1].type = "ImportNamespaceSpecifier" THEN "all"
    ELSE IF node.specifiers[1].type = "ImportDefaultSpecifier" THEN "default"
    ELSE "named"

\* Array.prototype.indexOf: 0-based, -1 when absent
indexOf(array, x) ==
    IF \E i \in 1..Len(array) : array[i] = x
    THEN (CHOOSE i \in 1..Len(array) :
              array[i] = x /\ \A j \in 1..(i - 1) : array[j] # x) - 1
    ELSE -1

getMemberParameterGroupIndex(node) ==
    indexOf(memberSyntaxSortOrder, usedMemberSyntax(node))

getFirstLocalMemberName(node) ==
    IF Len(node.specifiers) > 0 THEN Some(node.specifiers[1].local.name) ELSE Null

\* variant: the difference of the line numbers, consecutive lines counting as one
getNumberOfLinesBetweenInclusive(left, right) ==
    IF right.loc.start.line - left.loc.end.line > 0
    THEN right.loc.start.line - left.loc.end.line
    ELSE 0

getNumberOfLinesBetween(left, right) ==
    IF right.loc.start.line - left.loc.end.line - 1 > 0
    THEN right.loc.start.line - left.loc.end.line - 1
    ELSE 0

\* lines 174-181: the name the declarations are compared by
localMemberName(node) ==
    IF ~ignoreCase
    THEN (IF getFirstLocalMemberName(node) # Null
          THEN Some(toLowerCase(getFirstLocalMemberName(node)[1]))
          ELSE Null)
    ELSE getFirstLocalMemberName(node)

\* lines 147-158: the cursor after the gap check
cursorAfterGapCheck(node) ==
    IF /\ previousDeclaration # Null
       /\ allowSeparatedGroups
       /\ getNumberOfLinesBetween(previousDeclaration[1], node) > 0
    THEN Null
    ELSE previousDeclaration

\* lines 160-224: the reports of node compared against the cursor
declarationReports(previous, node) ==
    IF getMemberParameterGroupIndex(node) # getMemberParameterGroupIndex(previous)
    THEN IF getMemberParameterGroupIndex(node) < getMemberParameterGroupIndex(previous)
         THEN <<[node |-> node, messageId |-> "unexpectedSyntaxOrder",
                 data |-> [syntaxA |-> memberSyntaxSortOrder[
                                           getMemberParameterGroupIndex(node) + 1],
                           syntaxB |-> memberSyntaxSortOrder[
                                           getMemberParameterGroupIndex(previous) + 1]],
                 fix |-> Null]>>
         ELSE <<>>
    ELSE IF /\ localMemberName(previous) # Null
            /\ localMemberName(node) # Null
            /\ StrLess(localMemberName(node)[1], localMemberName(previous)[1])
         THEN <<[node |-> node, messageId |-> "sortImportsAlphabetically",
                 data |-> Null, fix |-> Null]>>
         ELSE <<>>

\* variant: a reported declaration does not become the cursor
cursorKeptOnReport(node) ==
    IF /\ cursorAfterGapCheck(node) # Null
       /\ declarationReports(cursorAfterGapCheck(node)[1], node) # <<>>
    THEN previousDeclaration
    ELSE Some(node)

\* line 226
cursorAfterCheck(node) == Some(node)

\* ------------------------------------------------------- member ordering
importSpecifiers(node) ==
    SelectSeq(node.specifiers, LAMBDA specifier : specifier.type = "ImportSpecifier")

getSortableName(specifier) ==
    IF ignoreCase THEN specifier.local.name ELSE toLowerCase(specifier.local.name)

\* .map(getSortableName).findIndex((name, index, array) => array[index - 1] > name)
\* 0-based, -1 when no index matches; array[-1] is undefined and compares false
firstUnsortedIndex(specifiers) ==
    LET unsorted == {i \in 2..Len(specifiers) :
                        StrGreater(getSortableName(specifiers[i - 1]),
                                   getSortableName(specifiers[i]))}
    IN  IF unsorted = {} THEN -1
        ELSE (CHOOSE i \in unsorted : \A j \in unsorted : i <= j) - 1

\* sourceCode.getText(node)
getText(text, node) == Slice(text, node.range[1], node.range[2])

\* sourceCode.getCommentsBefore / getCommentsAfter: the comments next to the node
getCommentsBefore(text, node) ==
    IF /\ node.range[1] >= Len(Comment)
       /\ Slice(text, node.range[1] - Len(Comment), node.range[1]) = Comment
    THEN <<Comment>> ELSE <<>>

getCommentsAfter(text, node) ==
    IF /\ node.range[2] + Len(Comment) <= Len(text)
       /\ Slice(text, node.range[2], node.range[2] + Len(Comment)) = Comment
    THEN <<Comment>> ELSE <<>>

\* variant: only the comments before a specifier are looked for
hasCommentsBefore(text, specifiers) ==
    \E i \in 1..Len(specifiers) : Len(getCommentsBefore(text, specifiers[i])) # 0

\* lines 252-259
hasComments(text, specifiers) ==
    \E i \in 1..Len(specifiers) :
        \/ Len(getCommentsBefore(text, specifiers[i])) # 0
        \/ Len(getCommentsAfter(text, specifiers[i])) # 0

\* variant: the comparator takes the local names as they are written
compareFnByLocalName(specifierA, specifierB) ==
    IF StrGreater(specifierA.local.name, specifierB.local.name) THEN 1 ELSE -1

\* lines 278-287: the comparator handed to Array.prototype.sort
compareFn(specifierA, specifierB) ==
    IF StrGreater(getSortableName(specifierA), getSortableName(specifierB))
    THEN 1 ELSE -1

Orderings(n) == {p \in [1..n -> 1..n] : \A i, j \in 1..n : p[i] = p[j] => i = j}

(***************************************************************************)
(* .slice().sort(compareFn).  compareFn answers -1 for equal names in both *)
(* directions, so it is not a consistent comparator and the order of such  *)
(* elements is implementation-defined: every permutation in which no       *)
(* element stands before one that compareFn puts it after is an outcome.   *)
(***************************************************************************)
sortOutcomes(specifiers) ==
    {[i \in 1..Len(specifiers) |-> specifiers[p[i]]] : p \in
        {q \in Orderings(Len(specifiers)) :
            \A i, j \in 1..Len(specifiers) :
                i < j => compareFn(specifiers[q[i]], specifiers[q[j]]) <= 0}}

\* variant: the specifiers are joined by ", "
textAfterSpecifierJoined(text, specifiers, index) ==
    IF index = Len(specifiers) - 1 THEN <<>> ELSE CommaSpace

\* lines 292-303, index 0-based
textAfterSpecifier(text, specifiers, index) ==
    IF index = Len(specifiers) - 1 THEN <<>>
    ELSE Slice(text, specifiers[index + 1].range[2], specifiers[index + 2].range[1])

\* lines 290-312: the reduce over the sorted specifiers
replacementText(text, specifiers, sorted) ==
    Concat([i \in 1..Len(sorted) |->
               getText(text, sorted[i]) \o textAfterSpecifier(text, specifiers, i - 1)])

\* lines 251-314: fix(fixer), sorted being the outcome of the sort
fix(text, specifiers, sorted) ==
    IF hasComments(text, specifiers) THEN Null
    ELSE Some([range |-> <<specifiers[1].range[1],
                           specifiers[Len(specifiers)].range[2]>>,
               text |-> replacementText(text, specifiers, sorted)])

\* lines 229-317
memberReports(node, text, sorted) ==
    IF firstUnsortedIndex(importSpecifiers(node)) # -1
    THEN <<[node |-> importSpecifiers(node)[firstUnsortedIndex(importSpecifiers(node)) + 1],
            messageId |-> "sortMembersAlphabetically",
            data |-> [memberName |->
                importSpecifiers(node)[firstUnsortedIndex(importSpecifiers(node)) + 1]
                    .local.name],
            fix |-> fix(text, importSpecifiers(node), sorted)]>>
    ELSE <<>>

\* --------------------------------------------------------- the callback
IsFlagged(rs) ==
    \E i \in 1..Len(rs) :
        rs[i].messageId \in {"unexpectedSyntaxOrder", "sortImportsAlphabetically"}

ImportDeclaration(node, text) ==
    /\ declCount < MaxDecls
    /\ \E sorted \in sortOutcomes(importSpecifiers(node)) :
          reports' =
              (IF ~ignoreDeclarationSort /\ cursorAfterGapCheck(node) # Null
               THEN declarationReports(cursorAfterGapCheck(node)[1], node)
               ELSE <<>>)
              \o (IF ~ignoreMemberSort THEN memberReports(node, text, sorted) ELSE <<>>)
    /\ previousDeclaration' =
          IF ~ignoreDeclarationSort THEN cursorAfterCheck(node) ELSE previousDeclaration
    /\ comparedWith' =
          IF ~ignoreDeclarationSort THEN cursorAfterGapCheck(node) ELSE Null
    /\ sourceText' = text
    /\ cur' = Some(node)
    /\ prev' = cur
    /\ prevFlagged' = IsFlagged(reports)
    /\ declCount' = declCount + 1
    /\ UNCHANGED configuration

\* --------------------------------------------------------------- inputs
ReadmeOrder == <<"all", "default", "named", "none">>   \* the README's example

Options(ic, order, ids, ims, asg) ==
    [ignoreCase |-> ic, memberSyntaxSortOrder |-> order,
     ignoreDeclarationSort |-> ids, ignoreMemberSort |-> ims,
     allowSeparatedGroups |-> asg]

DefaultConfiguration == Options(Null, Null, Null, Null, Null)

ReadmeExampleConfiguration ==
    Options(Some(TRUE), Some(ReadmeOrder), Some(FALSE), Some(FALSE), Some(FALSE))

Configurations ==
    {DefaultConfiguration, ReadmeExampleConfiguration,
     Options(Null, Null, Some(TRUE), Null, Null),
     Options(Some(TRUE), Null, Some(TRUE), Null, Some(FALSE)),
     Options(Some(TRUE), Null, Some(FALSE), Some(TRUE), Some(TRUE))}

MemberConfigurations ==
    {DefaultConfiguration,
     Options(Some(TRUE), Null, Null, Null, Null),
     Options(Null, Null, Some(TRUE), Some(TRUE), Null)}

DeclNames == {<<66>>, <<97>>, <<98>>}              \* "B", "a", "b"
MemberNames == DeclNames \cup {<<97, 98>>}         \* and "ab"
ModuleM == <<109>>                                 \* "m"

Plain(name) ==
    [local |-> name, renamed |-> FALSE, before |-> FALSE, after |-> FALSE, nl |-> FALSE]

Desc(head, name, named) == [head |-> head, name |-> name, named |-> named, from |-> ModuleM]

\* declarations of the declaration-order specification; the local names of one
\* declaration are distinct, as the language requires
DeclDescs ==
    {Desc("none", <<>>, <<>>)}
    \cup {Desc("namespace", <<97>>, <<>>)}
    \cup {Desc("default", n, <<>>) : n \in DeclNames}
    \cup {Desc("default", <<97>>, <<Plain(<<66>>)>>)}
    \cup {Desc("none", <<>>, <<Plain(<<97>>)>>)}
    \cup {Desc("none", <<>>, <<[Plain(<<98>>) EXCEPT !.nl = TRUE], Plain(<<97>>)>>)}

\* named specifier lists of the member-order specification: n distinct names,
\* at most one renamed specifier, one comment and one line break
NameLists(n) == {ns \in [1..n -> MemberNames] : \A i, j \in 1..n : ns[i] = ns[j] => i = j}

MemberLists(n) ==
    {[i \in 1..n |->
        [local |-> ns[i], renamed |-> (r = i), before |-> (c = 2 * i - 1),
         after |-> (c = 2 * i), nl |-> (l = i)]] :
        ns \in NameLists(n), r \in 0..n, c \in 0..(2 * n), l \in 0..(n - 1)}

MemberDescs ==
    {Desc(h, IF h = "default" THEN <<100>> ELSE <<>>, ms) :
        h \in {"none", "default"}, ms \in UNION {MemberLists(n) : n \in 1..MaxSpecs}}

\* the declarations of the README's goal example (src/readme.md lines 8-16)
Readme ==
    <<[head |-> "default", name |-> <<102, 111, 111>>, named |-> <<>>,
       from |-> <<102, 111, 111>>],
      [head |-> "default", name |-> <<98, 97, 114>>, named |-> <<>>,
       from |-> <<98, 97, 114>>],
      [head |-> "none", name |-> <<>>,
       named |-> <<Plain(<<77, 111, 100, 117, 108, 101, 49>>),
                   Plain(<<77, 111, 100, 117, 108, 101, 50>>)>>,
       from |-> <<109, 111, 100, 117, 108, 101, 115>>],
      [head |-> "default", name |-> <<65, 115, 115, 101, 116, 49>>, named |-> <<>>,
       from |-> <<97, 49>>],
      [head |-> "default", name |-> <<65, 115, 115, 101, 116, 50>>, named |-> <<>>,
       from |-> <<97, 50>>],
      [head |-> "default", name |-> <<66, 117, 116, 116, 111, 110>>, named |-> <<>>,
       from |-> <<66>>],
      [head |-> "none", name |-> <<>>,
       named |-> <<Plain(<<76, 105, 115, 116>>),
                   Plain(<<76, 105, 115, 116, 73, 116, 101, 109>>)>>,
       from |-> <<76>>]>>

\* the lines a declaration may start on: one of firstLines for the first,
\* otherwise up to MaxGap lines after the end of the one before (0: the same line)
StartLines(firstLines) ==
    IF cur = Null THEN firstLines
    ELSE {cur[1].loc.end.line + g : g \in 0..MaxGap}

\* the column a declaration starts at: 0 on a line of its own, two characters
\* ("; ") after the end of the declaration before when on the same line
RECURSIVE LastLineLength(_)
LastLineLength(text) ==
    IF text = <<>> \/ text[Len(text)] = 10 THEN 0
    ELSE 1 + LastLineLength(SubSeq(text, 1, Len(text) - 1))

Column(startLine) ==
    IF cur # Null /\ cur[1].loc.end.line = startLine
    THEN LastLineLength(sourceText) + 2
    ELSE 0

Parsed(d, startLine) ==
    [node |-> MkNode(d, startLine, Column(startLine)),
     text |-> FileText(d, startLine, Column(startLine))]

\* ------------------------------------------------------- specifications
InitWith(cfgs) ==
    /\ configuration \in cfgs
    /\ previousDeclaration = Null
    /\ sourceText = <<>>
    /\ cur = Null
    /\ prev = Null
    /\ comparedWith = Null
    /\ prevFlagged = FALSE
    /\ reports = <<>>
    /\ declCount = 0

\* a file of up to MaxDecls declarations, any configuration
Init == InitWith(Configurations)

Next ==
    /\ declCount < MaxDecls
    /\ \E d \in DeclDescs, line \in StartLines({1}) :
          ImportDeclaration(Parsed(d, line).node, Parsed(d, line).text)

Spec == Init /\ [][Next]_vars

\* a file of one declaration with up to MaxSpecs named specifiers: the member
\* check (lines 229-317) reads nothing of the earlier callbacks
InitMember == InitWith(MemberConfigurations)

NextMember ==
    /\ declCount = 0
    /\ \E d \in MemberDescs, line \in StartLines({1, 2}) :
          ImportDeclaration(Parsed(d, line).node, Parsed(d, line).text)

SpecMember == InitMember /\ [][NextMember]_vars

\* files made of the README's declarations under the default configuration
InitReadme == InitWith({DefaultConfiguration})

NextReadme ==
    /\ declCount < MaxDecls
    /\ \E k \in 1..Len(Readme), line \in StartLines({1}) :
          ImportDeclaration(Parsed(Readme[k], line).node, Parsed(Readme[k], line).text)

SpecReadme == InitReadme /\ [][NextReadme]_vars

\* ================================================================ claims
\* The claims are stated on what the specification and the README say, with
\* their own reading of tag, group index, sort key and line gap.
Cur == cur[1]
Prev == prev[1]

Count(messageId) ==
    Cardinality({i \in 1..Len(reports) : reports[i].messageId = messageId})

ReportOf(messageId) ==
    reports[CHOOSE i \in 1..Len(reports) : reports[i].messageId = messageId]

TagOf(node) ==
    IF node.specifiers = <<>> THEN "none"
    ELSE CASE node.specifiers[1].type = "ImportNamespaceSpecifier" -> "all"
           [] node.specifiers[1].type = "ImportDefaultSpecifier" -> "default"
           [] node.specifiers[1].type = "ImportSpecifier" -> "named"

GroupIndex(node) ==
    CHOOSE i \in 1..4 : memberSyntaxSortOrder[i] = TagOf(node)

HasName(node) == node.specifiers # <<>>

FirstName(node) == node.specifiers[1].local.name

\* the sort key as the specification words it
SpecKey(name) == IF ignoreCase THEN toLowerCase(name) ELSE name

BlankLines == Cur.loc.start.line - Prev.loc.end.line - 1

NamedOf(node) ==
    SelectSeq(node.specifiers, LAMBDA sp : sp.type = "ImportSpecifier")

DeclarationSortOn == configuration.ignoreDeclarationSort \in {Null, Some(FALSE)}

MemberSortOn == configuration.ignoreMemberSort \in {Null, Some(FALSE)}

\* C1: two consecutive declarations of one syntax group with no blank line
\* between them: exactly one sortImportsAlphabetically violation, at the
\* later one, iff both have a first local name and the later key is smaller,
\* the key being lower-cased when ignoreCase is true and unmodified otherwise.
C1_AlphabeticalByOptionKey ==
    (/\ prev # Null
     /\ DeclarationSortOn
     /\ BlankLines <= 0
     /\ GroupIndex(Cur) = GroupIndex(Prev))
    => LET descending ==
               /\ HasName(Cur)
               /\ HasName(Prev)
               /\ StrLess(SpecKey(FirstName(Cur)), SpecKey(FirstName(Prev)))
       IN  /\ Count("sortImportsAlphabetically") = (IF descending THEN 1 ELSE 0)
           /\ descending => ReportOf("sortImportsAlphabetically").node = Cur

\* C3: configured with allowSeparatedGroups false, a declaration separated
\* from the one before by blank lines is still compared against it: a
\* backward group transition, or a first name that descends whatever the
\* case handling, is reported.
C3_NoResetWhenSeparatedGroupsOff ==
    (/\ prev # Null
     /\ DeclarationSortOn
     /\ configuration.allowSeparatedGroups = Some(FALSE)
     /\ BlankLines > 0)
    => /\ comparedWith = prev
       /\ GroupIndex(Cur) < GroupIndex(Prev) => Count("unexpectedSyntaxOrder") = 1
       /\ (/\ GroupIndex(Cur) = GroupIndex(Prev)
           /\ HasName(Cur)
           /\ HasName(Prev)
           /\ StrLess(FirstName(Cur), FirstName(Prev))
           /\ StrLess(toLowerCase(FirstName(Cur)), toLowerCase(FirstName(Prev))))
          => Count("sortImportsAlphabetically") = 1

C5_BlankLineSeparates ==
    (/\ prev # Null
     /\ DeclarationSortOn
     /\ configuration.allowSeparatedGroups \in {Null, Some(TRUE)})
    => /\ BlankLines > 0
          => /\ comparedWith = Null
             /\ Count("unexpectedSyntaxOrder") = 0
             /\ Count("sortImportsAlphabetically") = 0
       /\ BlankLines <= 0
          => /\ comparedWith = prev
             /\ GroupIndex(Cur) < GroupIndex(Prev) => Count("unexpectedSyntaxOrder") = 1

\* a backward group transition across a blank line went unreported
C5_Witness ==
    /\ prev # Null
    /\ DeclarationSortOn
    /\ configuration.allowSeparatedGroups = Null
    /\ BlankLines > 0
    /\ GroupIndex(Cur) < GroupIndex(Prev)
    /\ reports = <<>>

\* C10: with declaration sorting on, after each callback the cursor is the
\* declaration just processed (null only before the first) and the callback
\* compared against nothing but its immediate predecessor; with
\* ignoreDeclarationSort the cursor stays null, no declaration-order violation
\* is reported and an inversion of the members still is.
C10_CursorIsLastDeclaration ==
    /\ DeclarationSortOn
       => /\ previousDeclaration = cur
          /\ (previousDeclaration = Null) = (declCount = 0)
          /\ comparedWith \in {Null, prev}
    /\ ~DeclarationSortOn
       => /\ previousDeclaration = Null
          /\ Count("unexpectedSyntaxOrder") = 0
          /\ Count("sortImportsAlphabetically") = 0
          /\ (/\ cur # Null
              /\ MemberSortOn
              /\ firstUnsortedIndex(NamedOf(Cur)) # -1)
             => Count("sortMembersAlphabetically") = 1

\* three declarations on consecutive lines, the second and the third both
\* reported, the third compared against the reported second
C10_Witness ==
    /\ DeclarationSortOn
    /\ declCount = 3
    /\ prevFlagged
    /\ BlankLines = 0
    /\ comparedWith = prev
    /\ previousDeclaration = cur
    /\ Count("sortImportsAlphabetically") = 1

\* C8: the README's goal example, processed in source order under the
\* default configuration, gets no violation: neither its first declaration
\* nor any declaration following its README predecessor at the README's
\* distance is reported.
ReadmeLines == <<8, 9, 10, 12, 13, 15, 16>>

C8_ReadmeExampleIsClean ==
    \A k \in 1..Len(Readme) :
        (/\ cur # Null
         /\ \E line \in 1..Cur.loc.start.line :
               /\ cur = Some(MkNode(Readme[k], line, 0))
               /\ IF k = 1 THEN prev = Null
                  ELSE /\ prev # Null
                       /\ line - (ReadmeLines[k] - ReadmeLines[k - 1]) >= 1
                       /\ prev = Some(MkNode(Readme[k - 1],
                                 line - (ReadmeLines[k] - ReadmeLines[k - 1]), 0)))
        => reports = <<>>

\* ---- re-reading a fixed declaration
\* the text of the file after the host applied the replacement f
ApplyFix(text, f) ==
    Slice(text, 0, f.range[1]) \o f.text \o Slice(text, f.range[2], Len(text))

IsSpace(c) == c \in {32, 10}

\* The named specifiers the parser finds between the braces of the first
\* declaration of text: comma-separated, each "imported as local" or "local",
\* with their local names and ranges.
ParseNamed(text) ==
    LET open == CHOOSE i \in 1..Len(text) :
                    text[i] = 123 /\ \A j \in 1..(i - 1) : text[j] # 123
        close == CHOOSE i \in 1..Len(text) :
                     text[i] = 125 /\ \A j \in 1..(i - 1) : text[j] # 125
        commas == {i \in (open + 1)..(close - 1) : text[i] = 44}
        bounds == {open, close} \cup commas
        n == Cardinality(commas) + 1
        \* the k-th boundary, k = 0 being the opening brace
        bound(k) == CHOOSE i \in bounds : Cardinality({j \in bounds : j < i}) = k
        first(k) == CHOOSE i \in (bound(k - 1) + 1)..(bound(k) - 1) :
                        ~IsSpace(text[i])
                        /\ \A j \in (bound(k - 1) + 1)..(i - 1) : IsSpace(text[j])
        last(k) == CHOOSE i \in (bound(k - 1) + 1)..(bound(k) - 1) :
                       ~IsSpace(text[i])
                       /\ \A j \in (i + 1)..(bound(k) - 1) : IsSpace(text[j])
        localStart(k) == CHOOSE i \in first(k)..last(k) :
                             /\ i = first(k) \/ IsSpace(text[i - 1])
                             /\ \A j \in i..last(k) : ~IsSpace(text[j])
    IN  [k \in 1..n |->
            [type |-> "ImportSpecifier",
             local |-> [name |-> SubSeq(text, localStart(k), last(k))],
             range |-> <<first(k) - 1, last(k)>>]]

MemberReported == Count("sortMembersAlphabetically") = 1

MemberReport == ReportOf("sortMembersAlphabetically")

\* C2: with member sorting on, a sortMembersAlphabetically violation is
\* reported iff some named specifier has a smaller key than the one before
\* it, the key being the local name lower-cased when ignoreCase is true and
\* unmodified otherwise; at most one, at the first such specifier, carrying
\* its local name.
C2_MemberOrderByOptionKey ==
    (cur # Null /\ MemberSortOn)
    => LET S == NamedOf(Cur)
           inversions == {i \in 2..Len(S) :
                             StrGreater(SpecKey(S[i - 1].local.name),
                                        SpecKey(S[i].local.name))}
           at == CHOOSE i \in inversions : \A j \in inversions : i <= j
       IN  /\ Count("sortMembersAlphabetically") = (IF inversions = {} THEN 0 ELSE 1)
           /\ inversions # {}
              => /\ MemberReport.node = S[at]
                 /\ MemberReport.data = [memberName |-> S[at].local.name]

\* C6: applying a member-order fix and checking the members of the resulting
\* text again, under the same configuration, reports nothing.
C6_FixThenCheckIsClean ==
    (MemberReported /\ MemberReport.fix # Null)
    => firstUnsortedIndex(ParseNamed(ApplyFix(sourceText, MemberReport.fix[1]))) = -1

\* a fix was produced for specifiers two of which have the same sort key
C6_Witness ==
    /\ MemberReported
    /\ MemberReport.fix # Null
    /\ \E i, j \in 1..Len(NamedOf(Cur)) :
          /\ i # j
          /\ getSortableName(NamedOf(Cur)[i]) = getSortableName(NamedOf(Cur)[j])
    /\ ParseNamed(ApplyFix(sourceText, MemberReport.fix[1])) # ParseNamed(sourceText)

CommentAt(i) ==
    LET sp == NamedOf(Cur)[i]
    IN  \/ SubSeq(sourceText, sp.range[1] - 3, sp.range[1]) = Comment
        \/ SubSeq(sourceText, sp.range[2] + 1, sp.range[2] + 4) = Comment

\* C7: a member inversion is reported whether or not comments are present;
\* its fix returns no replacement iff some named specifier of the
\* declaration has a comment right before or after it.
C7_CommentsWithholdFix ==
    (cur # Null /\ MemberSortOn /\ firstUnsortedIndex(NamedOf(Cur)) # -1)
    => /\ MemberReported
       /\ (MemberReport.fix = Null) = (\E i \in 1..Len(NamedOf(Cur)) : CommentAt(i))

\* an inversion was reported without a fix because of a comment after a
\* specifier that is not part of the inversion
C7_Witness ==
    /\ MemberReported
    /\ MemberReport.fix = Null
    /\ Len(NamedOf(Cur)) = 3
    /\ firstUnsortedIndex(NamedOf(Cur)) = 1
    /\ SubSeq(sourceText, NamedOf(Cur)[3].range[2] + 1, NamedOf(Cur)[3].range[2] + 4)
           = Comment
    /\ ~CommentAt(1)
    /\ ~CommentAt(2)

====
